---- MODULE Spec2Model ----
(***************************************************************************)
(* Model of `investigate` (src/main.rs): a one-shot scaffolding pipeline   *)
(* that creates a project directory tree, initialises a git repository,    *)
(* looks up the author in the global git configuration and writes files    *)
(* rendered from embedded templates.                                       *)
(*                                                                         *)
(* Strings are sequences of atoms.  An atom is a single character, or a    *)
(* literal of the program ("src", ".jl", "environment.yml", ...) that      *)
(* contains no '/' and on which no character-level function is applied.    *)
(* Paths are strings; "/" is the separator atom.                           *)
(***************************************************************************)
EXTENDS Integers, Sequences, FiniteSets, TLC

VARIABLES
    pc,                  \* position of the process in main / of the function under study
    dirname,             \* args.dirname (OsString)
    name,                \* args.name (Option<String>)
    language,            \* args.language (Option<Language>)
    project_name,        \* main: project_name
    capitalized_project, \* main: capitalized_project
    dirs,                \* file system: existing directories
    files,               \* file system: path -> content of existing files
    dirs0,               \* directories that existed before the run
    files0,              \* files that existed before the run
    created,             \* paths created by the run, in creation order
    subdir,              \* make_dirs: index of the next element of DIRECTORIES
    steps,               \* pipeline steps entered so far, in order
    failedAt,            \* step at which the process aborted ("" while none)
    status,              \* process exit status (-1 while running)
    stderr,              \* messages printed to standard error
    stdout,              \* messages printed to standard output
    config,              \* the global git configuration read by get_author_email
    author_email,        \* main: author_email
    conda_run,           \* outcome of Command::new("conda")...output()
    conda_prefix,        \* the value of $CONDA_PREFIX as read by make_conda_yml
    readme,              \* the master document README.md (sequence of lines)
    excerpt,             \* the lines make_readme copies from the master document
    uuid_date,           \* the random uuid and the local date drawn by the run
    module_in,           \* argument of convert_name_to_module under study
    module_out           \* its result

vars == <<pc, dirname, name, language, project_name, capitalized_project,
          dirs, files, dirs0, files0, created, subdir, steps, failedAt, status,
          stderr, stdout, config, author_email, conda_run, conda_prefix,
          readme, excerpt, uuid_date, module_in, module_out>>

\* groups of variables that most steps leave alone
argVars == <<dirname, name, language>>
beforeVars == <<dirs0, files0>>
studyVars == <<readme, excerpt, module_in, module_out>>

----------------------------------------------------------------------------
(* Bounds of the model *)

MaxNameLen == 3      \* longest project name given to convert_name_to_module
MaxDocLen == 3       \* most lines of a master document
MaxEntries == 3      \* most entries of the "user" section of the git config

----------------------------------------------------------------------------
(* Option values *)

None == [some |-> FALSE]
Some(v) == [some |-> TRUE, v |-> v]

\* a value of the environment the run has not read yet / has read
Unread == [read |-> FALSE]
Read(v) == [read |-> TRUE, v |-> v]

Range(s) == {s[k] : k \in 1..Len(s)}

RECURSIVE Concat(_)
Concat(ss) == IF ss = <<>> THEN <<>> ELSE Head(ss) \o Concat(Tail(ss))

----------------------------------------------------------------------------
(* Characters and strings *)

Lower == <<"a","b","c","d","e","f","g","h","i","j","k","l","m",
           "n","o","p","q","r","s","t","u","v","w","x","y","z">>
Upper == <<"A","B","C","D","E","F","G","H","I","J","K","L","M",
           "N","O","P","Q","R","S","T","U","V","W","X","Y","Z">>

\* A byte that is not valid UTF-8 (as an OsString may contain).
InvalidByte == "0xFF"

\* The character U+00DF, whose uppercase mapping is the two characters "SS".
SharpS == "sz"

\* char::to_uppercase: an iterator of one or more characters.
ToUppercase(c) ==
    IF \E k \in 1..26 : Lower[k] = c
    THEN <<Upper[CHOOSE k \in 1..26 : Lower[k] = c]>>
    ELSE IF c = SharpS THEN <<"S", "S">> ELSE <<c>>

\* fn capitalize(s: &str) -> String
Capitalize(s) ==
    IF s = <<>> THEN <<>>
    ELSE ToUppercase(Head(s)) \o Tail(s)

\* variant: only the underscore separates
IsUnderscore(c) == c = "_"

\* the closure |c| c == '_' || c == '-'
IsSeparator(c) == c = "_" \/ c = "-"

\* str::split(pattern): the segments between matches, empty ones included.
RECURSIVE SplitFrom(_, _, _)
SplitFrom(s, k, cur) ==
    IF k > Len(s) THEN <<cur>>
    ELSE IF IsSeparator(s[k]) THEN <<cur>> \o SplitFrom(s, k + 1, <<>>)
    ELSE SplitFrom(s, k + 1, Append(cur, s[k]))

Split(s) == SplitFrom(s, 1, <<>>)

\* fn convert_name_to_module(project_name: &str) -> String
ConvertNameToModule(s) ==
    LET chunks == Split(s)
    IN  Concat([k \in 1..Len(chunks) |-> Capitalize(chunks[k])])

\* variant: a lossy conversion that always yields text
ToStrLossy(os) == Some(os)

\* OsStr::to_str: Some(text) when the bytes are valid UTF-8, else None.
ToStr(os) == IF InvalidByte \in Range(os) THEN None ELSE Some(os)

----------------------------------------------------------------------------
(* Paths and the file system *)

IsAbsolute(p) == p # <<>> /\ Head(p) = "/"

\* Path::join (PathBuf::push): an absolute argument replaces the path.
PathJoin(p, q) ==
    IF IsAbsolute(q) THEN q
    ELSE IF p = <<>> THEN q
    ELSE IF p[Len(p)] = "/" THEN p \o q
    ELSE p \o <<"/">> \o q

\* The directory holding p; <<>> is the current directory.
Parent(p) ==
    LET slashes == {k \in 1..Len(p) : p[k] = "/"}
    IN  IF slashes = {} THEN <<>>
        ELSE LET last == CHOOSE k \in slashes : \A j \in slashes : j <= k
             IN  IF last = 1 THEN <<"/">> ELSE SubSeq(p, 1, last - 1)

DirExists(p, ds) == p = <<>> \/ p = <<"/">> \/ p \in ds

\* variant: create_dir_all, which accepts a directory that exists
CanCreateDirAll(p) ==
    /\ p # <<>>
    /\ p \notin DOMAIN files
    /\ DirExists(Parent(p), dirs)

\* std::fs::create_dir can succeed: the path is free and its parent exists.
CanCreateDir(p) ==
    /\ p # <<>>
    /\ p \notin dirs
    /\ p \notin DOMAIN files
    /\ DirExists(Parent(p), dirs)

\* std::fs::write can succeed: the parent exists and the path is no directory.
CanWrite(p) ==
    /\ p # <<>>
    /\ ~DirExists(p, dirs)
    /\ DirExists(Parent(p), dirs)

\* variant: the list with two names exchanged
DirectoriesSwapped == <<"raw", "src", "results", "paper", "tmp", "cache", "choices">>

\* const DIRECTORIES
DIRECTORIES == <<"src", "raw", "results", "paper", "tmp", "cache", "choices">>

----------------------------------------------------------------------------
(* The master document and the README excerpt *)

\* A line of the master document: its text, and whether white space
\* precedes or follows the text on the line.
Texts == {"## Directory structure", "## Usage", "text"}
Lines == [lead : BOOLEAN, text : Texts, trail : BOOLEAN]

\* str::trim
Trim(line) == [line EXCEPT !.lead = FALSE, !.trail = FALSE]

Header == [lead |-> FALSE, text |-> "## Directory structure", trail |-> FALSE]

\* line.trim() == "## Directory structure"
IsDirectoryHeader(line) == Trim(line) = Header

\* line.starts_with("## ")
StartsWithH2(line) ==
    ~line.lead /\ line.text \in {"## Directory structure", "## Usage"}

\* variant: the second loop trims the line before it looks for "## "
RECURSIVE CopyToNextTrimmedHeader(_)
CopyToNextTrimmedHeader(lines) ==
    IF lines = <<>> THEN <<>>
    ELSE IF Head(lines).text \in {"## Directory structure", "## Usage"} THEN <<>>
    ELSE <<Head(lines)>> \o CopyToNextTrimmedHeader(Tail(lines))

\* second loop of make_readme: copy lines up to the next header
RECURSIVE CopyToNextHeader(_)
CopyToNextHeader(lines) ==
    IF lines = <<>> THEN <<>>
    ELSE IF StartsWithH2(Head(lines)) THEN <<>>
    ELSE <<Head(lines)>> \o CopyToNextHeader(Tail(lines))

\* first loop of make_readme: skip to the header line, which is copied,
\* then go on with the rest of the same iterator
RECURSIVE DirectoryExcerpt(_)
DirectoryExcerpt(lines) ==
    IF lines = <<>> THEN <<>>
    ELSE IF IsDirectoryHeader(Head(lines))
         THEN <<Head(lines)>> \o CopyToNextHeader(Tail(lines))
         ELSE DirectoryExcerpt(Tail(lines))

----------------------------------------------------------------------------
(* The global git configuration and the author lookup *)

\* An entry of the configuration iterator: the iterator may yield an error;
\* name() and value() are None when the bytes are not valid UTF-8.
Entries ==
    {[ok |-> FALSE, name |-> None, value |-> None]}
    \cup {[ok |-> TRUE, name |-> None, value |-> Some("x")]}
    \cup {[ok |-> TRUE, name |-> Some("user.signingkey"), value |-> Some("x")]}
    \cup [ok : {TRUE}, name : {Some("user.name")}, value : {Some("x"), Some("y")}]
    \cup [ok : {TRUE}, name : {Some("user.email")}, value : {Some("y"), None}]

RECURSIVE SeqsUpTo(_, _)
SeqsUpTo(S, n) ==
    IF n = 0 THEN {<<>>}
    ELSE LET shorter == SeqsUpTo(S, n - 1)
         IN  shorter \cup {Append(s, e) : s \in shorter, e \in S}

Configs ==
    {[open |-> FALSE, listed |-> FALSE, entries |-> <<>>],
     [open |-> TRUE, listed |-> FALSE, entries |-> <<>>]}
    \cup [open : {TRUE}, listed : {TRUE}, entries : SeqsUpTo(Entries, MaxEntries)]

\* variant: the loop skips an entry it cannot read instead of giving up
RECURSIVE AuthorLoopSkipping(_, _, _)
AuthorLoopSkipping(entries, nm, em) ==
    IF entries = <<>>
    THEN IF nm.some /\ em.some THEN Some(<<nm.v, em.v>>) ELSE None
    ELSE LET entry == Head(entries)
         IN  IF ~entry.ok \/ ~entry.name.some \/ ~entry.value.some
             THEN AuthorLoopSkipping(Tail(entries), nm, em)
             ELSE IF entry.name.v = "user.name"
                  THEN AuthorLoopSkipping(Tail(entries), Some(entry.value.v), em)
             ELSE IF entry.name.v = "user.email"
                  THEN AuthorLoopSkipping(Tail(entries), nm, Some(entry.value.v))
             ELSE AuthorLoopSkipping(Tail(entries), nm, em)

\* the for loop of get_author_email and its final Some((name?, email?))
RECURSIVE AuthorLoop(_, _, _)
AuthorLoop(entries, nm, em) ==
    IF entries = <<>>
    THEN IF nm.some /\ em.some THEN Some(<<nm.v, em.v>>) ELSE None
    ELSE LET entry == Head(entries)
         IN  IF ~entry.ok THEN None
             ELSE IF ~entry.name.some THEN None
             ELSE IF ~entry.value.some THEN None
             ELSE IF entry.name.v = "user.name"
                  THEN AuthorLoop(Tail(entries), Some(entry.value.v), em)
             ELSE IF entry.name.v = "user.email"
                  THEN AuthorLoop(Tail(entries), nm, Some(entry.value.v))
             ELSE AuthorLoop(Tail(entries), nm, em)

\* fn get_author_email() -> Option<(String, String)>
GetAuthorEmail(cfg) ==
    IF ~cfg.open THEN None
    ELSE IF ~cfg.listed THEN None
    ELSE AuthorLoop(cfg.entries, None, None)

----------------------------------------------------------------------------
(* The run of main *)

\* let path = Path::new(&args.dirname)
path == dirname

Uuids == {"uuid-1", "uuid-2"}
Dates == {"2022-07-01"}

\* content left by a write that failed after the file was opened
Truncated == [tpl |-> "truncated"]

\* panic!/expect: the process aborts with status 101
Panic(step, msg) ==
    /\ pc' = "panicked"
    /\ failedAt' = step
    /\ status' = 101
    /\ stderr' = stderr \cup {msg}

\* the process goes on to `next`; falling off the end of main exits with 0
Goto(next) ==
    /\ pc' = next
    /\ status' = IF next = "done" THEN 0 ELSE status
    /\ UNCHANGED failedAt

\* variant: a failed write removes the files the run has written
WriteWithCleanup(p, content, step, next) ==
    \/ /\ CanWrite(p)
       /\ files' = (p :> content) @@ files
       /\ created' = Append(created, p)
       /\ Goto(next)
       /\ UNCHANGED stderr
    \/ /\ files' = files0
       /\ UNCHANGED created
       /\ Panic(step, "Error when creating file")

\* fn write(path, string): std::fs::write, a failure is a panic
Write(p, content, step, next) ==
    \/ /\ CanWrite(p)
       /\ files' = (p :> content) @@ files
       /\ created' = Append(created, p)
       /\ Goto(next)
       /\ UNCHANGED stderr
    \/ /\ UNCHANGED <<files, created>>
       /\ Panic(step, "Error when creating file")
    \/ /\ CanWrite(p)
       /\ files' = (p :> Truncated) @@ files
       /\ created' = Append(created, p)
       /\ Panic(step, "Error when creating file")

\* std::process::exit(1) after a message on standard error
Exit1(msg) ==
    /\ pc' = "exited"
    /\ status' = 1
    /\ failedAt' = "resolve_name"
    /\ stderr' = stderr \cup {msg}

\* main, lines 169-189: parse, resolve and validate the project name
ResolveName ==
    /\ pc = "start"
    /\ steps' = Append(steps, "resolve_name")
    /\ LET resolved == IF name.some THEN name ELSE ToStr(dirname)
       IN  IF ~resolved.some
           THEN /\ Exit1("Error: Project name is not a normal UTF-8 string")
                /\ UNCHANGED <<project_name, capitalized_project>>
           ELSE IF resolved.v = <<>>
           THEN /\ Exit1("Error: Project name cannot be empty")
                /\ project_name' = resolved.v
                /\ UNCHANGED capitalized_project
           ELSE /\ project_name' = resolved.v
                /\ capitalized_project' = Capitalize(resolved.v)
                /\ Goto("make_dirs")
                /\ UNCHANGED stderr
    /\ UNCHANGED <<argVars, beforeVars, studyVars, dirs, files, created, subdir,
                   stdout, config, author_email, conda_run, conda_prefix, uuid_date>>

\* make_dirs, lines 122-123: create the main project directory
MakeMainDir ==
    /\ pc = "make_dirs"
    /\ steps' = Append(steps, "make_dirs")
    /\ \/ /\ CanCreateDir(path)
          /\ dirs' = dirs \cup {path}
          /\ created' = Append(created, path)
          /\ subdir' = 1
          /\ Goto("sub_dirs")
          /\ UNCHANGED stderr
       \/ /\ UNCHANGED <<dirs, created, subdir>>
          /\ Panic("make_dirs", "Error when creating main project directory")
    /\ UNCHANGED <<argVars, beforeVars, studyVars, project_name,
                   capitalized_project, files, stdout, config, author_email,
                   conda_run, conda_prefix, uuid_date>>

\* make_dirs, lines 124-127: one iteration of the loop over DIRECTORIES
MakeSubDir ==
    /\ pc = "sub_dirs"
    /\ LET target == PathJoin(path, <<DIRECTORIES[subdir]>>)
       IN  \/ /\ CanCreateDir(target)
              /\ dirs' = dirs \cup {target}
              /\ created' = Append(created, target)
              /\ subdir' = subdir + 1
              /\ Goto(IF subdir = Len(DIRECTORIES) THEN "repo_init" ELSE "sub_dirs")
              /\ UNCHANGED stderr
           \/ /\ UNCHANGED <<dirs, created, subdir>>
              /\ Panic("make_dirs", "Error when creating sub-directory")
    /\ UNCHANGED <<argVars, beforeVars, studyVars, project_name,
                   capitalized_project, files, steps, stdout, config,
                   author_email, conda_run, conda_prefix, uuid_date>>

\* main, line 191: Repository::init(&path).expect(...)
RepoInit ==
    /\ pc = "repo_init"
    /\ steps' = Append(steps, "repo_init")
    /\ LET gitdir == PathJoin(path, <<".git">>)
       IN  \/ /\ dirs' = dirs \cup {gitdir}
              /\ created' = Append(created, gitdir)
              /\ Goto("author")
              /\ UNCHANGED stderr
           \/ /\ UNCHANGED <<dirs, created>>
              /\ Panic("repo_init", "Error when initializing git repo:")
    /\ UNCHANGED <<argVars, beforeVars, studyVars, project_name,
                   capitalized_project, files, subdir, stdout, config,
                   author_email, conda_run, conda_prefix, uuid_date>>

AuthorWarning == "Warning: Could not extract author name and email from global git config."

\* main, lines 192-200: look the author up, warn when absent
LookupAuthor ==
    /\ pc = "author"
    /\ steps' = Append(steps, "author")
    /\ \E cfg \in Configs :
          /\ config' = Read(cfg)
          /\ author_email' = GetAuthorEmail(cfg)
          /\ stderr' = IF GetAuthorEmail(cfg) = None
                       THEN stderr \cup {AuthorWarning}
                       ELSE stderr
    /\ Goto("gitignore")
    /\ UNCHANGED <<argVars, beforeVars, studyVars, project_name,
                   capitalized_project, dirs, files, created, subdir, stdout,
                   conda_run, conda_prefix, uuid_date>>

\* main, line 201: author_email.as_ref().map(|x| x.0.clone())
author == IF author_email.some THEN Some(author_email.v[1]) ELSE None

\* main, lines 204-214: .gitignore
WriteGitignore ==
    /\ pc = "gitignore"
    /\ steps' = Append(steps, "gitignore")
    /\ LET python_gitignore == IF language = Some("Python") THEN "__pycache__" ELSE ""
       IN  Write(PathJoin(path, <<".gitignore">>),
                 [tpl |-> "gitignore", python_gitignore |-> python_gitignore],
                 "gitignore", "readme")
    /\ UNCHANGED <<argVars, beforeVars, studyVars, project_name,
                   capitalized_project, dirs, subdir, stdout, config,
                   author_email, conda_run, conda_prefix, uuid_date>>

\* main, lines 220-221: the step that follows the README
LanguageBranch ==
    IF ~language.some THEN "done"
    ELSE IF language.v = "Julia" THEN "julia_main" ELSE "python_main"

\* fn make_readme, called at line 217 with the capitalized project name
MakeReadme ==
    /\ pc = "readme"
    /\ steps' = Append(steps, "readme")
    /\ \E date \in Dates :
          /\ uuid_date' = [uuid_date EXCEPT !.date = date]
          /\ Write(PathJoin(path, <<"README.md">>),
                   [tpl |-> "readme",
                    project_name |-> capitalized_project,
                    author |-> IF author.some THEN <<"Author: ", author.v, "\n">> ELSE <<>>,
                    date |-> date,
                    directory |-> DirectoryExcerpt(readme)],
                   "readme", LanguageBranch)
    /\ UNCHANGED <<argVars, beforeVars, studyVars, project_name,
                   capitalized_project, dirs, subdir, stdout, config,
                   author_email, conda_run, conda_prefix>>

\* main, lines 223-227: the Julia main file src/<ModuleName>.jl
WriteJuliaMain ==
    /\ pc = "julia_main"
    /\ steps' = Append(steps, "julia_main")
    /\ LET module_name == ConvertNameToModule(project_name)
       IN  Write(PathJoin(PathJoin(path, <<"src">>), module_name \o <<".jl">>),
                 [tpl |-> "main"], "julia_main", "julia_project")
    /\ UNCHANGED <<argVars, beforeVars, studyVars, project_name,
                   capitalized_project, dirs, subdir, stdout, config,
                   author_email, conda_run, conda_prefix, uuid_date>>

\* fn make_julia_project, called at line 228
MakeJuliaProject ==
    /\ pc = "julia_project"
    /\ steps' = Append(steps, "julia_project")
    /\ \E uuid \in Uuids :
          /\ uuid_date' = [uuid_date EXCEPT !.uuid = uuid]
          /\ Write(PathJoin(path, <<"Project.toml">>),
                   [tpl |-> "project",
                    module_name |-> ConvertNameToModule(project_name),
                    uuid_str |-> uuid,
                    author |-> IF author_email.some
                               THEN <<author_email.v[1], " <", author_email.v[2], ">">>
                               ELSE <<"Unknown author">>],
                   "julia_project", "done")
    /\ UNCHANGED <<argVars, beforeVars, studyVars, project_name,
                   capitalized_project, dirs, subdir, stdout, config,
                   author_email, conda_run, conda_prefix>>

\* main, lines 231-234: the Python main file src/main.py
WritePythonMain ==
    /\ pc = "python_main"
    /\ steps' = Append(steps, "python_main")
    /\ Write(PathJoin(PathJoin(path, <<"src">>), <<"main.py">>),
             [tpl |-> "main"], "python_main", "conda_create")
    /\ UNCHANGED <<argVars, beforeVars, studyVars, project_name,
                   capitalized_project, dirs, subdir, stdout, config,
                   author_email, conda_run, conda_prefix, uuid_date>>

\* variant: a failure to run conda is a panic
CondaCreateFatal ==
    /\ pc = "conda_create"
    /\ steps' = Append(steps, "conda_create")
    /\ \E outcome \in {"Ok", "Err"} :
          /\ conda_run' = outcome
          /\ IF outcome = "Ok"
             THEN /\ stdout' = stdout \cup {"Created Conda environment"}
                  /\ Goto("conda_yml")
                  /\ UNCHANGED stderr
             ELSE /\ Panic("conda_create", "Warning: Could not create Conda environment")
                  /\ UNCHANGED stdout
    /\ UNCHANGED <<argVars, beforeVars, studyVars, project_name,
                   capitalized_project, dirs, files, created, subdir, config,
                   author_email, conda_prefix, uuid_date>>

\* fn conda_create, called at line 235: the outcome of running conda is
\* reported, never propagated
CondaCreate ==
    /\ pc = "conda_create"
    /\ steps' = Append(steps, "conda_create")
    /\ \E outcome \in {"Ok", "Err"} :
          /\ conda_run' = outcome
          /\ IF outcome = "Ok"
             THEN /\ stdout' = stdout \cup {"Created Conda environment"}
                  /\ UNCHANGED stderr
             ELSE /\ stderr' = stderr \cup {"Warning: Could not create Conda environment"}
                  /\ UNCHANGED stdout
    /\ Goto("conda_yml")
    /\ UNCHANGED <<argVars, beforeVars, studyVars, project_name,
                   capitalized_project, dirs, files, created, subdir, config,
                   author_email, conda_prefix, uuid_date>>

\* the values $CONDA_PREFIX may have: unset, a path, or bytes that are not UTF-8
Prefixes == {None, Some(<<"/", "c">>), Some(<<"/", InvalidByte>>)}

PrefixWarning == "Warning: Could not get env variable $CONDA_PREFIX. Not writing environment.yml file."

\* fn make_conda_yml, called at line 236
MakeCondaYml ==
    /\ pc = "conda_yml"
    /\ steps' = Append(steps, "conda_yml")
    /\ \E var \in Prefixes :
          /\ conda_prefix' = Read(var)
          /\ IF ~var.some \/ ~ToStr(var.v).some
             THEN /\ stderr' = stderr \cup {PrefixWarning}
                  /\ Goto("done")
                  /\ UNCHANGED <<files, created>>
             ELSE LET prefix_path == PathJoin(PathJoin(var.v, <<"envs">>), project_name)
                  IN  Write(PathJoin(path, <<"environment.yml">>),
                            [tpl |-> "environment",
                             name |-> project_name,
                             prefix_path |-> prefix_path],
                            "conda_yml", "done")
    /\ UNCHANGED <<argVars, beforeVars, studyVars, project_name,
                   capitalized_project, dirs, subdir, stdout, config,
                   author_email, conda_run, uuid_date>>

----------------------------------------------------------------------------
(* Studies of the pure functions *)

\* make_readme, lines 45-62, applied to a master document
ReadmeExcerpt ==
    /\ pc = "excerpt"
    /\ pc' = "excerpt_done"
    /\ excerpt' = DirectoryExcerpt(readme)
    /\ UNCHANGED <<argVars, beforeVars, project_name, capitalized_project, dirs,
                   files, created, subdir, steps, failedAt, status, stderr,
                   stdout, config, author_email, conda_run, conda_prefix,
                   readme, uuid_date, module_in, module_out>>

\* convert_name_to_module applied to a project name
ModuleName ==
    /\ pc = "module"
    /\ pc' = "module_done"
    /\ module_out' = ConvertNameToModule(module_in)
    /\ UNCHANGED <<argVars, beforeVars, project_name, capitalized_project, dirs,
                   files, created, subdir, steps, failedAt, status, stderr,
                   stdout, config, author_email, conda_run, conda_prefix,
                   readme, excerpt, uuid_date, module_in>>

----------------------------------------------------------------------------
(* Initial states and specifications *)

\* target paths given on the command line
Dirnames ==
    {<<"p">>, <<"a", "/", "b", "-", "c">>, <<"/", "t">>, <<>>, <<"p", InvalidByte>>}

\* --name
Names == {None, Some(<<>>), Some(<<"n", "_", "m">>)}

\* --language
Languages == {None, Some("Python"), Some("Julia")}

\* the directories above p, other than the root and the current directory
Ancestors(p) == {SubSeq(p, 1, k - 1) : k \in {j \in 2..Len(p) : p[j] = "/"}}

Plain(text) == [lead |-> FALSE, text |-> text, trail |-> FALSE]

\* master documents used by the runs of main
MainDocs ==
    {<<Plain("text"), Header, Plain("text"), Plain("## Usage"), Plain("text")>>,
     <<Plain("text")>>}

\* characters of the project names given to convert_name_to_module
Alphabet == {"a", "B", "1", "-", "_", SharpS}

NothingRun ==
    /\ project_name = <<>>
    /\ capitalized_project = <<>>
    /\ created = <<>>
    /\ subdir = 0
    /\ steps = <<>>
    /\ failedAt = ""
    /\ status = -1
    /\ stderr = {}
    /\ stdout = {}
    /\ config = Unread
    /\ author_email = None
    /\ conda_run = "none"
    /\ conda_prefix = Unread
    /\ uuid_date = [uuid |-> "", date |-> ""]
    /\ dirs0 = dirs
    /\ files0 = files

\* the process is started: arguments, and the file system it finds
Init ==
    /\ pc = "start"
    /\ dirname \in Dirnames
    /\ name \in Names
    /\ language \in Languages
    /\ \E found \in {"fresh", "exists", "orphan"} :
          /\ found = "exists" => dirname # <<>>
          /\ found = "orphan" => Ancestors(dirname) # {}
          /\ dirs = CASE found = "fresh" -> Ancestors(dirname)
                      [] found = "exists" -> Ancestors(dirname) \cup {dirname}
                      [] found = "orphan" -> {}
          /\ files = IF found = "exists"
                     THEN PathJoin(dirname, <<"notes.txt">>) :> [tpl |-> "old"]
                     ELSE <<>>
    /\ readme \in MainDocs
    /\ excerpt = <<>>
    /\ module_in = <<>>
    /\ module_out = <<>>
    /\ NothingRun

Next ==
    \/ ResolveName
    \/ MakeMainDir
    \/ MakeSubDir
    \/ RepoInit
    \/ LookupAuthor
    \/ WriteGitignore
    \/ MakeReadme
    \/ WriteJuliaMain
    \/ MakeJuliaProject
    \/ WritePythonMain
    \/ CondaCreate
    \/ MakeCondaYml

Spec == Init /\ [][Next]_vars

\* make_readme's excerpt, for every master document within the bound
InitReadme ==
    /\ pc = "excerpt"
    /\ readme \in SeqsUpTo(Lines, MaxDocLen)
    /\ excerpt = <<>>
    /\ dirname = <<"p">>
    /\ name = None
    /\ language = None
    /\ dirs = {}
    /\ files = <<>>
    /\ module_in = <<>>
    /\ module_out = <<>>
    /\ NothingRun

NextReadme == ReadmeExcerpt

SpecReadme == InitReadme /\ [][NextReadme]_vars

\* convert_name_to_module, for every project name within the bound
InitModule ==
    /\ pc = "module"
    /\ module_in \in SeqsUpTo(Alphabet, MaxNameLen)
    /\ module_out = <<>>
    /\ readme = <<>>
    /\ excerpt = <<>>
    /\ dirname = <<"p">>
    /\ name = None
    /\ language = None
    /\ dirs = {}
    /\ files = <<>>
    /\ NothingRun

NextModule == ModuleName

SpecModule == InitModule /\ [][NextModule]_vars

----------------------------------------------------------------------------
(* Properties *)

RunPcs == {"start", "make_dirs", "sub_dirs", "repo_init", "author", "gitignore",
           "readme", "julia_main", "julia_project", "python_main",
           "conda_create", "conda_yml", "done", "exited", "panicked"}

\* the text after the last '/' of a path
LastSegment(p) ==
    LET slashes == {k \in 1..Len(p) : p[k] = "/"}
    IN  IF slashes = {} THEN p
        ELSE SubSeq(p, (CHOOSE k \in slashes : \A j \in slashes : j <= k) + 1, Len(p))

\* C1: when the target path already exists, the run never gets past the
\* creation of the main directory: it aborts there with a failure status,
\* nothing is created, and the directories and files found are left as
\* they were.
C1_ExistingTargetAborts ==
    dirname \in dirs0 =>
        /\ pc \in {"start", "make_dirs", "exited", "panicked"}
        /\ dirs = dirs0
        /\ files = files0
        /\ created = <<>>
        /\ pc = "panicked" => failedAt = "make_dirs" /\ status = 101
        /\ pc = "exited" => status = 1

C1_Witness ==
    /\ dirname \in dirs0
    /\ pc = "panicked"
    /\ failedAt = "make_dirs"
    /\ PathJoin(dirname, <<"notes.txt">>) \in DOMAIN files

\* C2: with no name override the resolved project name is the final segment
\* of the target path, and the display name is that segment capitalized.
C2_NameIsFinalSegment ==
    (pc \in RunPcs \ {"start", "exited"} /\ ~name.some) =>
        /\ project_name = LastSegment(dirname)
        /\ capitalized_project = Capitalize(LastSegment(dirname))

\* C3 (as stated): in a Python run no failure inside conda_create or inside
\* make_conda_yml ever aborts the process.
C3_EnvStepsNeverAbort ==
    language = Some("Python") => failedAt \notin {"conda_create", "conda_yml"}

\* $CONDA_PREFIX could not be read as text
PrefixMissing ==
    conda_prefix.read /\ (~conda_prefix.v.some \/ ~ToStr(conda_prefix.v.v).some)

\* C3 (amended): a failure to run conda and a failure to read $CONDA_PREFIX
\* never abort the process: the run goes on after the first and ends with
\* status 0 after the second; the only abort inside the two steps is a
\* failed write of environment.yml when the prefix was read.
C3_EnvLookupsNeverAbort ==
    /\ failedAt # "conda_create"
    /\ conda_run = "Err" =>
          /\ "Warning: Could not create Conda environment" \in stderr
          /\ pc \in {"conda_yml", "done", "panicked"}
          /\ pc = "panicked" => failedAt = "conda_yml" /\ ~PrefixMissing
    /\ PrefixMissing => pc = "done" /\ status = 0 /\ PrefixWarning \in stderr
    /\ failedAt = "conda_yml" => conda_prefix.read /\ ~PrefixMissing

C3_Witness ==
    /\ language = Some("Python")
    /\ conda_run = "Err"
    /\ PrefixMissing
    /\ pc = "done"
    /\ status = 0

\* the eight directories of a project, as paths under the target path
ProjectDirs ==
    <<dirname>> \o [k \in 1..7 |->
        dirname \o <<"/", <<"src", "raw", "results", "paper", "tmp", "cache", "choices">>[k]>>]

\* C4: a Python run with $CONDA_PREFIX unset writes no environment.yml while
\* every other step completes and the process ends with status 0; with
\* $CONDA_PREFIX set to P, environment.yml is written with the path
\* P/envs/<project_name>.
C4_CondaPrefix ==
    (language = Some("Python") /\ pc = "done") =>
        /\ ~conda_prefix.v.some =>
              /\ dirname \o <<"/", "environment.yml">> \notin DOMAIN files
              /\ status = 0
              /\ Range(ProjectDirs) \subseteq dirs
              /\ dirname \o <<"/", ".git">> \in dirs
              /\ {dirname \o <<"/", ".gitignore">>,
                  dirname \o <<"/", "README.md">>,
                  dirname \o <<"/", "src", "/", "main.py">>} \subseteq DOMAIN files
              /\ conda_run \in {"Ok", "Err"}
        /\ (conda_prefix.v.some /\ ToStr(conda_prefix.v.v).some) =>
              /\ dirname \o <<"/", "environment.yml">> \in DOMAIN files
              /\ files[dirname \o <<"/", "environment.yml">>].prefix_path
                    = conda_prefix.v.v \o <<"/", "envs", "/">> \o project_name

\* C5: make_dirs on a fresh path creates exactly eight directories, the
\* target path and then src, raw, results, paper, tmp, cache, choices
\* directly under it, in that order, whatever the language.
C5_EightDirectories ==
    /\ pc = "sub_dirs" => created = SubSeq(ProjectDirs, 1, subdir)
    /\ pc = "repo_init" =>
          /\ created = ProjectDirs
          /\ dirs \ dirs0 = Range(ProjectDirs)
          /\ Cardinality(dirs \ dirs0) = 8
          /\ \A k \in 2..8 : Parent(created[k]) = dirname
          /\ files = files0
    /\ pc \in {"author", "gitignore", "readme", "julia_main", "julia_project",
               "python_main", "conda_create", "conda_yml", "done"} =>
          SubSeq(created, 1, 8) = ProjectDirs

C5_Witness ==
    /\ pc = "repo_init"
    /\ language = Some("Julia")
    /\ Cardinality(dirs \ dirs0) = 8

\* the value of the last entry called `key` of a configuration
LastValue(entries, key) ==
    LET at == {k \in 1..Len(entries) : entries[k].name = Some(key)}
    IN  entries[CHOOSE k \in at : \A j \in at : j <= k].value.v

\* C6: the author lookup yields a (name, email) pair exactly when the
\* configuration was read without any failure and holds both user.name and
\* user.email; otherwise it yields nothing, which never aborts the run: a
\* warning is printed, the run goes on, the README gets an empty author
\* field and Project.toml gets "Unknown author".
C6_AuthorLookup ==
    config.read =>
        LET cfg == config.v
            entries == cfg.entries
            failure ==
                \/ ~cfg.open
                \/ ~cfg.listed
                \/ \E k \in 1..Len(entries) :
                      ~entries[k].ok \/ ~entries[k].name.some \/ ~entries[k].value.some
            found(key) == \E k \in 1..Len(entries) : entries[k].name = Some(key)
            readmePath == dirname \o <<"/", "README.md">>
            manifestPath == dirname \o <<"/", "Project.toml">>
        IN  /\ author_email.some <=> (~failure /\ found("user.name") /\ found("user.email"))
            /\ author_email.some =>
                  author_email.v = <<LastValue(entries, "user.name"),
                                     LastValue(entries, "user.email")>>
            /\ failedAt # "author"
            /\ pc \notin {"start", "make_dirs", "sub_dirs", "repo_init", "author", "exited"}
            /\ ~author_email.some =>
                  /\ AuthorWarning \in stderr
                  /\ (readmePath \in DOMAIN files /\ files[readmePath] # Truncated) =>
                        files[readmePath].author = <<>>
                  /\ (manifestPath \in DOMAIN files /\ files[manifestPath] # Truncated) =>
                        files[manifestPath].author = <<"Unknown author">>
            /\ (author_email.some /\ readmePath \in DOMAIN files
                  /\ files[readmePath] # Truncated) =>
                  files[readmePath].author
                     = <<"Author: ", LastValue(entries, "user.name"), "\n">>

C6_Witness ==
    /\ config.read
    /\ config.v.open
    /\ config.v.listed
    /\ Len(config.v.entries) = 3
    /\ config.v.entries[1].name = Some("user.name")
    /\ config.v.entries[2].name = Some("user.email")
    /\ config.v.entries[2].value = Some("y")
    /\ ~config.v.entries[3].ok
    /\ ~author_email.some
    /\ pc = "done"
    /\ status = 0
    /\ dirname \o <<"/", "Project.toml">> \in DOMAIN files
    /\ files[dirname \o <<"/", "Project.toml">>].author = <<"Unknown author">>
    /\ files[dirname \o <<"/", "README.md">>].author = <<>>

\* a line begins with the three characters "## "
BeginsSection(line) ==
    ~line.lead /\ (line.text = "## Directory structure" \/ line.text = "## Usage")

\* the lines of doc from the first line of `headers` up to, not including,
\* the next line that begins a section, or up to the end of the document
SectionFrom(doc, headers) ==
    IF headers = {} THEN <<>>
    ELSE LET first == CHOOSE k \in headers : \A j \in headers : k <= j
             later == {k \in (first + 1)..Len(doc) : BeginsSection(doc[k])}
             stop == IF later = {} THEN Len(doc) + 1
                     ELSE CHOOSE k \in later : \A j \in later : k <= j
         IN  SubSeq(doc, first, stop - 1)

\* C7 (as stated): the excerpt starts at the first line equal to
\* "## Directory structure" and runs to the next line starting with "## ",
\* or to the end of the document; it is empty when there is no such line.
C7_ExcerptFromEqualLine ==
    pc = "excerpt_done" =>
        excerpt = SectionFrom(readme, {k \in 1..Len(readme) : readme[k] = Header})

\* C7 (amended): the excerpt starts at the first line that is
\* "## Directory structure" once surrounding white space is trimmed (the
\* line is copied untrimmed) and runs to the next line starting with "## ",
\* or to the end of the document; it is empty when there is no such line.
C7_ExcerptFromTrimmedLine ==
    pc = "excerpt_done" =>
        excerpt = SectionFrom(readme,
                    {k \in 1..Len(readme) : readme[k].text = "## Directory structure"})

C7_Witness ==
    /\ pc = "excerpt_done"
    /\ Len(readme) = 3
    /\ readme[1].text = "## Directory structure" /\ readme[1].lead
    /\ readme[2].text = "## Usage" /\ readme[2].lead
    /\ readme[3] = Header
    /\ excerpt = SubSeq(readme, 1, 2)

\* the module name, character by character: separators vanish, a character
\* that starts the name or follows a separator is uppercased
ModuleByPosition(s) ==
    Concat([k \in 1..Len(s) |->
        IF s[k] \in {"-", "_"} THEN <<>>
        ELSE IF k = 1 \/ s[k - 1] \in {"-", "_"} THEN ToUppercase(s[k])
        ELSE <<s[k]>>])

\* C8: convert_name_to_module splits at every '-' and '_', capitalizes each
\* segment and concatenates the results: the result holds no '-' and no '_',
\* "my-cool_project" gives "MyCoolProject", "" gives "" and "-a" gives "A".
C8_ModuleName ==
    /\ pc = "module_done" =>
          /\ \A k \in 1..Len(module_out) : module_out[k] \notin {"-", "_"}
          /\ module_out = ModuleByPosition(module_in)
    /\ ConvertNameToModule(<<"m","y","-","c","o","o","l","_","p","r","o","j","e","c","t">>)
          = <<"M","y","C","o","o","l","P","r","o","j","e","c","t">>
    /\ ConvertNameToModule(<<>>) = <<>>
    /\ ConvertNameToModule(<<"-", "a">>) = <<"A">>

C8_Witness ==
    /\ pc = "module_done"
    /\ module_in = <<"a", "-", "_">>
    /\ module_out = <<"A">>

\* C9: a run whose resolved project name is empty, or whose path is not
\* valid UTF-8 while no name is given, ends with status 1 before anything
\* is created.
C9_NameValidatedFirst ==
    LET rejected ==
            \/ name.some /\ name.v = <<>>
            \/ ~name.some /\ dirname = <<>>
            \/ ~name.some /\ InvalidByte \in Range(dirname)
    IN  /\ (pc \in RunPcs /\ rejected) =>
              /\ pc \in {"start", "exited"}
              /\ dirs = dirs0
              /\ files = files0
              /\ created = <<>>
        /\ pc = "exited" =>
              /\ rejected
              /\ status = 1
              /\ steps = <<"resolve_name">>

C9_Witness ==
    /\ pc = "exited"
    /\ ~name.some
    /\ InvalidByte \in Range(dirname)
    /\ status = 1
    /\ dirs = dirs0

\* the order of the steps of a run
StepOrder ==
    <<"resolve_name", "make_dirs", "repo_init", "author", "gitignore", "readme">>
    \o (IF language = Some("Julia") THEN <<"julia_main", "julia_project">>
        ELSE IF language = Some("Python")
             THEN <<"python_main", "conda_create", "conda_yml">>
        ELSE <<>>)

\* C10: the steps run in one fixed order; after an abort no step is taken;
\* and no step, an aborting one included, removes or changes what the
\* earlier steps created.
C10_LinearNoRollback ==
    /\ [](pc \in RunPcs =>
            /\ Len(steps) <= Len(StepOrder)
            /\ steps = SubSeq(StepOrder, 1, Len(steps))
            /\ pc \in {"panicked", "exited"} => failedAt = steps[Len(steps)])
    /\ [][/\ pc \notin {"panicked", "exited", "done"}
          /\ \A k \in 1..Len(created) :
                /\ created'[k] = created[k]
                /\ created[k] \in dirs => created[k] \in dirs'
                /\ created[k] \in DOMAIN files =>
                      /\ created[k] \in DOMAIN files'
                      /\ files'[created[k]] = files[created[k]]
          /\ dirs0 \subseteq dirs'
          /\ \A f \in DOMAIN files0 : f \in DOMAIN files' /\ files'[f] = files0[f]]_vars

C10_Witness ==
    /\ pc = "panicked"
    /\ failedAt = "readme"
    /\ Range(ProjectDirs) \subseteq dirs
    /\ dirname \o <<"/", ".gitignore">> \in DOMAIN files
    /\ files[dirname \o <<"/", ".gitignore">>].tpl = "gitignore"

====
